---- MODULE Spec2Model ----
(***************************************************************************)
(* Order ledger, rider directory and rider registration of the            *)
(* food-delivery backend (src/src/orders.js, src/src/firebaseService.js,   *)
(* src/src/riderAuth.js, src/src/users.js, src/src/login.js).              *)
(*                                                                         *)
(* Every handler is an async function whose only suspension points are     *)
(* its record-store calls.  A handler is therefore modelled as one action  *)
(* per store call: the action applies the call to the store and runs the   *)
(* synchronous code that follows it, up to the next store call or the      *)
(* response.  The first action of a handler also runs its validation.      *)
(* Several requests are in flight at once, one per slot of `req`.          *)
(*                                                                         *)
(* Encodings.  `ORD<t>` and `RDR<t>` identifiers are the integer t (each   *)
(* table has its own key space); null identifiers and null timestamps are  *)
(* NoId and NoTime; null strings are Null; an attribute an item does not   *)
(* carry is Absent (NoCount for a number).  The wall clock is sampled once *)
(* per synchronous block and never runs backwards.  The write-only         *)
(* timestamps updatedAt, joinedAt and lastLogin, which no handler reads,   *)
(* are left out of the items.                                              *)
(***************************************************************************)
EXTENDS Integers, Sequences, FiniteSets, TLC

\* ---------------------------------------------------------------- bounds
NReq == 2

MaxClock == 1

\* Order records explored by the one-at-a-time order specification.
MaxOrders == 1

\* Rider records explored by the rider specifications.
MaxRiders == 1

\* Cap of the totalDeliveries counter.
MaxDeliveries == 2

\* Order records explored by the specification of overlapping assignments.
MaxBooked == 2

\* ------------------------------------------------------------- encodings
NoId == 0 - 1

NoTime == 0 - 1

NoCount == 0 - 1

Null == "null"

Absent == "absent"

Slots == 1..NReq

Times == 0..MaxClock

\* An identifier no create operation generates within the bound.
GhostId == MaxClock + 1

ORDER_STATUSES == {"placed", "inProgress", "delivered", "cancelled"}

RIDER_STATUSES == {"available", "on-delivery", "offline"}

\* Status values a request body may carry (the valid ones and an invalid one).
OrderStatusInputs == ORDER_STATUSES \cup {"bogus"}

RiderStatusInputs == RIDER_STATUSES \cup {"bogus"}

\* `${prefix}${Date.now()}`: the generated key for clock value t.
GenId(t) == t

VARIABLES clock, orders, riders, users, req, last, hist, rhist

vars == <<clock, orders, riders, users, req, last, hist, rhist>>

\* ------------------------------------------------------- request bodies
\* totalAmount as it arrives in the JSON body: absent, a number, or a string
\* (a sequence of characters).
Missing == [k |-> "missing", n |-> 0, s |-> <<>>]

Num(n) == [k |-> "num", n |-> n, s |-> <<>>]

Str(s) == [k |-> "str", n |-> 0, s |-> s]

\* createOrder request bodies: items is absent, [] or a one-line list;
\* customer is absent, lacks its phone, or is complete.
OrderBodies ==
    { [items |-> "one", customer |-> "full", total |-> Num(5)],
      [items |-> "empty", customer |-> "full", total |-> Str(<<"5", "a">>)],
      [items |-> "one", customer |-> "full", total |-> Str(<<"-", "5">>)],
      [items |-> "missing", customer |-> "full", total |-> Num(5)],
      [items |-> "one", customer |-> "missing", total |-> Num(5)],
      [items |-> "one", customer |-> "noPhone", total |-> Num(5)],
      [items |-> "one", customer |-> "noName", total |-> Num(5)],
      [items |-> "one", customer |-> "full", total |-> Num(0 - 5)],
      [items |-> "one", customer |-> "full", total |-> Missing],
      [items |-> "one", customer |-> "full", total |-> Num(0)],
      [items |-> "one", customer |-> "full", total |-> Str(<<>>)] }

\* JavaScript truthiness of the values above.
Truthy(x) ==
    CASE x.k = "missing" -> FALSE
      [] x.k = "num" -> x.n # 0
      [] x.k = "str" -> x.s # <<>>

IsDigit(c) == c \in {"0", "5"}

DigitVal(c) == IF c = "5" THEN 5 ELSE 0

RECURSIVE ParseDigits(_, _)
ParseDigits(s, acc) ==
    IF s = <<>> \/ ~IsDigit(Head(s))
    THEN acc
    ELSE ParseDigits(Tail(s), acc * 10 + DigitVal(Head(s)))

\* parseFloat on the inputs above: a number is itself, a string is its
\* longest numeric prefix (optional sign, digits); trailing text is dropped.
ParseFloat(x) ==
    IF x.k = "num" THEN x.n
    ELSE IF x.s # <<>> /\ Head(x.s) = "-"
         THEN 0 - ParseDigits(Tail(x.s), 0)
         ELSE ParseDigits(x.s, 0)

\* Phone numbers are strings of characters; the empty string stands for a
\* body without phone (both are falsy to the handlers).
NoPhone == <<>>

Phone1 == <<"9", "0", "0", "0", "0", "0", "0", "0", "0", "1">>

ShortPhone == <<"1", "2">>

\* A table with no items.
EmptyTable == [k \in {} |-> Null]

\* ---------------------------------------------------------------- slots
\* The local state of a handler: its operation, the store call it waits
\* for, its request parameters, what its existence check read (ex), and the
\* clock value when that check returned (t0).
IdleSlot ==
    [op |-> "none", pc |-> "idle", id |-> NoId, status |-> Null,
     rid |-> NoId, rname |-> Null, coid |-> NoId, phone |-> NoPhone,
     name |-> Null, total |-> Missing, items |-> Null, upd |-> EmptyTable,
     ex |-> Absent, t0 |-> NoTime, role |-> Null, active |-> Absent,
     password |-> <<>>, token |-> Null]

\* Slot i holds no request.
Idle(i) == req[i].pc = "idle"

\* A new request takes the first slot that holds none (slots are
\* interchangeable, so only one allocation is explored).
Free(i) == Idle(i) /\ \A j \in Slots : j < i => ~Idle(j)

\* A response: operation, status code, the code of the error the catch block
\* caught ("none" without one), and the key the request was about.
Resp(op, code) ==
    [op |-> op, code |-> code, err |-> "none", id |-> NoId, phone |-> NoPhone,
     in |-> EmptyTable]

\* The response r of a request that is answered before its first store
\* write, together with the inputs the request carried.
RespIn(r, input) == [r EXCEPT !.in = input]

RespId(op, code, id) == [Resp(op, code) EXCEPT !.id = id]

RespPhone(op, code, phone) == [Resp(op, code) EXCEPT !.phone = phone]

\* The latest step sent no response.
NoResponse == Resp("none", 0)

\* res.status(code).json(...): the handler ends and its slot is released.
\* `last` is the response sent by the latest step, or NoResponse when the
\* step answered no request.
Respond(i, r) ==
    /\ req' = [req EXCEPT ![i] = IdleSlot]
    /\ last' = r

\* The handler of slot i suspends at a store call with local state `slot`.
Await(i, slot) ==
    /\ req' = [req EXCEPT ![i] = slot]
    /\ last' = NoResponse

Init ==
    /\ clock = 0
    /\ orders = EmptyTable
    /\ riders = EmptyTable
    /\ users = EmptyTable
    /\ req = [i \in Slots |-> IdleSlot]
    /\ last = NoResponse
    /\ hist = EmptyTable
    /\ rhist = EmptyTable

\* The wall clock advances.
Tick ==
    /\ clock < MaxClock
    /\ clock' = clock + 1
    /\ last' = NoResponse
    /\ UNCHANGED <<orders, riders, users, req, hist, rhist>>

\* ------------------------------------------------------ record store
\* DocumentClient.put without condition: insert or replace the whole item.
Put(table, key, item) ==
    [k \in DOMAIN table \cup {key} |-> IF k = key THEN item ELSE table[k]]

\* DocumentClient.update with a SET expression and no condition: the named
\* attributes are assigned on the stored item; when no item has the key, one
\* is created that carries the key and the assigned attributes only (`blank`
\* is the item with every other attribute absent).
Update(table, key, changes, blank) ==
    LET old == IF key \in DOMAIN table THEN table[key] ELSE blank
        new == [f \in DOMAIN old |-> IF f \in DOMAIN changes THEN changes[f] ELSE old[f]]
    IN  Put(table, key, new)

\* Mutant of StoreFails: the failure is swallowed and the handler answers
\* success.
StoreFailsSwallowed(i) ==
    /\ ~Idle(i)
    /\ Respond(i, [Resp(req[i].op, 200) EXCEPT !.err = "StoreUnavailable",
                                               !.id = req[i].id,
                                               !.phone = req[i].phone])
    /\ UNCHANGED <<clock, orders, riders, users, hist, rhist>>

\* A store call rejects (store unreachable or misconfigured): the handler's
\* catch block answers 500 and nothing is written.
StoreFails(i) ==
    /\ ~Idle(i)
    /\ Respond(i, [Resp(req[i].op, 500) EXCEPT !.err = "StoreUnavailable",
                                               !.id = req[i].id,
                                               !.phone = req[i].phone])
    /\ UNCHANGED <<clock, orders, riders, users, hist, rhist>>

\* Handlers whose first store call is a read.
ReadingOps == {"updateOrderStatus", "assignRider", "updateRiderStatus", "registerRider"}

\* The read that opens a handler rejects: the catch block answers 500 and
\* nothing was written.
ReadFails(i) ==
    /\ Free(i)
    /\ \E op \in ReadingOps :
          Respond(i, [Resp(op, 500) EXCEPT !.err = "StoreUnavailable"])
    /\ UNCHANGED <<clock, orders, riders, users, hist, rhist>>

\* ------------------------------------------------------------ orders.js
BlankOrder ==
    [status |-> Absent, riderId |-> NoId, riderName |-> Absent,
     totalAmount |-> 0, items |-> Absent,
     createdAt |-> NoTime, deliveredAt |-> NoTime]

OrderIdInputs == Times \cup {GhostId}

RiderIdInputs == {NoId, 0}

RiderNameInputs == {Null, "Ravi"}

\* Mutant of NewOrder: the amount is stored without parseFloat (a string
\* contributes no number).
NewOrderUnparsed(t, total, items) ==
    [status |-> "placed", riderId |-> NoId, riderName |-> Null,
     totalAmount |-> total.n, items |-> items,
     createdAt |-> t, deliveredAt |-> NoTime]

\* The item createOrder builds.
NewOrder(t, total, items) ==
    [status |-> "placed", riderId |-> NoId, riderName |-> Null,
     totalAmount |-> ParseFloat(total), items |-> items,
     createdAt |-> t, deliveredAt |-> NoTime]

\* Ghost history of each stored order record: whether its status has been
\* 'delivered', and whether assignRider has written to it.
NoHist == [delivered |-> FALSE, assigned |-> FALSE]

\* History of the record stored under `key` after a write: a put starts a
\* new record, an update continues the stored one.
HistAfter(key, isPut, isAssign, newOrders) ==
    LET old == IF isPut \/ key \notin DOMAIN hist THEN NoHist ELSE hist[key]
    IN  Put(hist, key,
            [delivered |-> old.delivered \/ newOrders[key].status = "delivered",
             assigned |-> old.assigned \/ isAssign])

\* createOrder up to its put call: validation, identifier, item.
CreateOrderBegin(i) ==
    /\ Free(i)
    /\ \E body \in OrderBodies :
          IF body.items = "missing" \/ body.customer = "missing" \/ ~Truthy(body.total)
          THEN Respond(i, RespIn(Resp("createOrder", 400), body))
          ELSE IF body.customer \in {"noName", "noPhone"}
          THEN Respond(i, RespIn(Resp("createOrder", 400), body))
          ELSE Await(i, [IdleSlot EXCEPT !.op = "createOrder", !.pc = "put",
                                         !.id = GenId(clock), !.t0 = clock,
                                         !.total = body.total, !.items = body.items])
    /\ UNCHANGED <<clock, orders, riders, users, hist, rhist>>

\* createOrder's put lands and the handler answers 201 with the item it put.
CreateOrderPut(i) ==
    /\ req[i].op = "createOrder" /\ req[i].pc = "put"
    /\ orders' = Put(orders, req[i].id, NewOrder(req[i].t0, req[i].total, req[i].items))
    /\ hist' = HistAfter(req[i].id, TRUE, FALSE, orders')
    /\ Respond(i, RespId("createOrder", 201, req[i].id))
    /\ UNCHANGED <<clock, riders, users, rhist>>

\* Mutant of UpdateOrderStatusGet: a delivered or cancelled order accepts no
\* further status.
UpdateOrderStatusGetTerminal(i) ==
    /\ Free(i)
    /\ \E id \in OrderIdInputs, status \in OrderStatusInputs :
          IF status \notin ORDER_STATUSES
          THEN Respond(i, RespIn(RespId("updateOrderStatus", 400, id), [status |-> status]))
          ELSE IF id \notin DOMAIN orders
          THEN Respond(i, RespIn(RespId("updateOrderStatus", 404, id), [status |-> status]))
          ELSE IF orders[id].status \in {"delivered", "cancelled"}
          THEN Respond(i, RespIn(RespId("updateOrderStatus", 400, id), [status |-> status]))
          ELSE Await(i, [IdleSlot EXCEPT !.op = "updateOrderStatus", !.pc = "update",
                                         !.id = id, !.status = status, !.t0 = clock])
    /\ UNCHANGED <<clock, orders, riders, users, hist, rhist>>

\* Mutant of UpdateOrderStatusGet: the status is not validated.
UpdateOrderStatusGetUnvalidated(i) ==
    /\ Free(i)
    /\ \E id \in OrderIdInputs, status \in OrderStatusInputs :
          IF id \notin DOMAIN orders
          THEN Respond(i, RespIn(RespId("updateOrderStatus", 404, id), [status |-> status]))
          ELSE Await(i, [IdleSlot EXCEPT !.op = "updateOrderStatus", !.pc = "update",
                                         !.id = id, !.status = status, !.t0 = clock])
    /\ UNCHANGED <<clock, orders, riders, users, hist, rhist>>

\* Mutant of UpdateOrderStatusGet: a request on an identifier that is not
\* stored leaves an item behind before it is answered 404.
UpdateOrderStatusGetWriting(i) ==
    /\ Free(i)
    /\ \E id \in OrderIdInputs, status \in OrderStatusInputs :
          IF status \notin ORDER_STATUSES
          THEN /\ Respond(i, RespIn(RespId("updateOrderStatus", 400, id), [status |-> status]))
               /\ UNCHANGED <<orders, hist>>
          ELSE IF id \notin DOMAIN orders
          THEN /\ orders' = Update(orders, id, [status |-> status], BlankOrder)
               /\ hist' = HistAfter(id, TRUE, FALSE, orders')
               /\ Respond(i, RespIn(RespId("updateOrderStatus", 404, id), [status |-> status]))
          ELSE /\ Await(i, [IdleSlot EXCEPT !.op = "updateOrderStatus", !.pc = "update",
                                            !.id = id, !.status = status, !.t0 = clock])
               /\ UNCHANGED <<orders, hist>>
    /\ UNCHANGED <<clock, riders, users, rhist>>

\* updateOrderStatus up to its update call: validation, existence check.
UpdateOrderStatusGet(i) ==
    /\ Free(i)
    /\ \E id \in OrderIdInputs, status \in OrderStatusInputs :
          IF status \notin ORDER_STATUSES
          THEN Respond(i, RespIn(RespId("updateOrderStatus", 400, id), [status |-> status]))
          ELSE IF id \notin DOMAIN orders
          THEN Respond(i, RespIn(RespId("updateOrderStatus", 404, id), [status |-> status]))
          ELSE Await(i, [IdleSlot EXCEPT !.op = "updateOrderStatus", !.pc = "update",
                                         !.id = id, !.status = status, !.t0 = clock])
    /\ UNCHANGED <<clock, orders, riders, users, hist, rhist>>

\* Mutant of StatusChanges: a status other than 'delivered' clears deliveredAt.
StatusChangesClearing(status, ts) ==
    IF status = "delivered"
    THEN [status |-> status, deliveredAt |-> ts]
    ELSE [status |-> status, deliveredAt |-> NoTime]

\* Mutant of StatusChanges: 'delivered' is stored without its timestamp.
StatusChangesUnstamped(status, ts) == [status |-> status]

\* The attribute changes updateOrderStatus sends.
StatusChanges(status, ts) ==
    IF status = "delivered"
    THEN [status |-> status, deliveredAt |-> ts]
    ELSE [status |-> status]

\* Mutant of UpdateOrderStatusUpdate: the handler writes the whole item
\* back, with the rider fields of an item that carries no assignment.
UpdateOrderStatusUpdateRebuilding(i) ==
    /\ req[i].op = "updateOrderStatus" /\ req[i].pc = "update"
    /\ \E ts \in req[i].t0 .. clock :
          orders' = Update(orders, req[i].id,
                           StatusChanges(req[i].status, ts) @@
                               [riderId |-> NoId, riderName |-> Null],
                           BlankOrder)
    /\ hist' = HistAfter(req[i].id, FALSE, FALSE, orders')
    /\ Respond(i, RespId("updateOrderStatus", 200, req[i].id))
    /\ UNCHANGED <<clock, riders, users, rhist>>

\* updateOrderStatus's update lands; its timestamp was sampled between the
\* get and the update.
UpdateOrderStatusUpdate(i) ==
    /\ req[i].op = "updateOrderStatus" /\ req[i].pc = "update"
    /\ \E ts \in req[i].t0 .. clock :
          orders' = Update(orders, req[i].id, StatusChanges(req[i].status, ts), BlankOrder)
    /\ hist' = HistAfter(req[i].id, FALSE, FALSE, orders')
    /\ Respond(i, RespId("updateOrderStatus", 200, req[i].id))
    /\ UNCHANGED <<clock, riders, users, rhist>>

\* Mutant of AssignRiderGet: no existence check before the update.
AssignRiderGetUnchecked(i) ==
    /\ Free(i)
    /\ \E id \in OrderIdInputs, riderId \in RiderIdInputs, riderName \in RiderNameInputs :
          IF riderId = NoId
          THEN Respond(i, RespIn(RespId("assignRider", 400, id),
                                 [riderId |-> riderId, riderName |-> riderName]))
          ELSE Await(i, [IdleSlot EXCEPT !.op = "assignRider", !.pc = "update",
                                         !.id = id, !.rid = riderId,
                                         !.rname = riderName])
    /\ UNCHANGED <<clock, orders, riders, users, hist, rhist>>

\* Mutant of AssignRiderGet: a rider that another 'inProgress' order carries
\* is refused.
AssignRiderGetExclusive(i) ==
    /\ Free(i)
    /\ \E id \in OrderIdInputs, riderId \in RiderIdInputs, riderName \in RiderNameInputs :
          IF riderId = NoId
          THEN Respond(i, RespIn(RespId("assignRider", 400, id),
                                 [riderId |-> riderId, riderName |-> riderName]))
          ELSE IF id \notin DOMAIN orders
          THEN Respond(i, RespIn(RespId("assignRider", 404, id),
                                 [riderId |-> riderId, riderName |-> riderName]))
          ELSE IF \E o \in DOMAIN orders \ {id} :
                      orders[o].riderId = riderId /\ orders[o].status = "inProgress"
          THEN Respond(i, RespIn(RespId("assignRider", 409, id),
                                 [riderId |-> riderId, riderName |-> riderName]))
          ELSE Await(i, [IdleSlot EXCEPT !.op = "assignRider", !.pc = "update",
                                         !.id = id, !.rid = riderId,
                                         !.rname = riderName])
    /\ UNCHANGED <<clock, orders, riders, users, hist, rhist>>

\* assignRider up to its update call: validation, existence check.
AssignRiderGet(i) ==
    /\ Free(i)
    /\ \E id \in OrderIdInputs, riderId \in RiderIdInputs, riderName \in RiderNameInputs :
          IF riderId = NoId
          THEN Respond(i, RespIn(RespId("assignRider", 400, id),
                                 [riderId |-> riderId, riderName |-> riderName]))
          ELSE IF id \notin DOMAIN orders
          THEN Respond(i, RespIn(RespId("assignRider", 404, id),
                                 [riderId |-> riderId, riderName |-> riderName]))
          ELSE Await(i, [IdleSlot EXCEPT !.op = "assignRider", !.pc = "update",
                                         !.id = id, !.rid = riderId,
                                         !.rname = riderName])
    /\ UNCHANGED <<clock, orders, riders, users, hist, rhist>>

\* Mutant of AssignChanges: the rider identifier is not written.
AssignChangesNoRider(riderId, riderName) ==
    [riderName |-> IF riderName = Null THEN "Assigned Rider" ELSE riderName,
     status |-> "inProgress"]

\* Mutant of AssignChanges: the order keeps its status.
AssignChangesKeepingStatus(riderId, riderName) ==
    [riderId |-> riderId,
     riderName |-> IF riderName = Null THEN "Assigned Rider" ELSE riderName]

\* The attribute changes assignRider sends.
AssignChanges(riderId, riderName) ==
    [riderId |-> riderId,
     riderName |-> IF riderName = Null THEN "Assigned Rider" ELSE riderName,
     status |-> "inProgress"]

\* Mutant of AssignRiderUpdate: the update also binds the rider record,
\* when there is one, to the order.
AssignRiderUpdateBinding(i) ==
    /\ req[i].op = "assignRider" /\ req[i].pc = "update"
    /\ orders' = Update(orders, req[i].id, AssignChanges(req[i].rid, req[i].rname), BlankOrder)
    /\ hist' = HistAfter(req[i].id, FALSE, TRUE, orders')
    /\ IF req[i].rid \in DOMAIN riders
       THEN riders' = [riders EXCEPT ![req[i].rid].status = "on-delivery",
                                     ![req[i].rid].currentOrderId = req[i].id]
       ELSE UNCHANGED riders
    /\ Respond(i, RespId("assignRider", 200, req[i].id))
    /\ UNCHANGED <<clock, users, rhist>>

\* assignRider's update lands.
AssignRiderUpdate(i) ==
    /\ req[i].op = "assignRider" /\ req[i].pc = "update"
    /\ orders' = Update(orders, req[i].id, AssignChanges(req[i].rid, req[i].rname), BlankOrder)
    /\ hist' = HistAfter(req[i].id, FALSE, TRUE, orders')
    /\ Respond(i, RespId("assignRider", 200, req[i].id))
    /\ UNCHANGED <<clock, riders, users, rhist>>

\* No request is in flight.
Quiet == \A j \in Slots : Idle(j)

\* The put of slot i keeps the number of stored orders within n (it replaces
\* a stored record or there is room for one more).
OrderRoom(i, n) == req[i].id \in DOMAIN orders \/ Cardinality(DOMAIN orders) < n

\* One request at a time: a request begins only when none is in flight.
NextOrders ==
    \/ Tick
    \/ \E i \in Slots : Quiet /\ CreateOrderBegin(i)
    \/ \E i \in Slots : OrderRoom(i, MaxOrders) /\ CreateOrderPut(i)
    \/ \E i \in Slots : Quiet /\ UpdateOrderStatusGet(i)
    \/ \E i \in Slots : UpdateOrderStatusUpdate(i)
    \/ \E i \in Slots : Quiet /\ AssignRiderGet(i)
    \/ \E i \in Slots : AssignRiderUpdate(i)
    \/ \E i \in Slots : StoreFails(i)

\* The order ledger when requests are issued one at a time.
SpecOrders == Init /\ [][NextOrders]_vars

\* ------------------------------------------- riders (firebaseService.js)
\* Phone numbers of the riders and users explored.
Phones == {Phone1}

\* The rider item with no attribute but its key.
BlankRider ==
    [phone |-> NoPhone, status |-> Absent, currentOrderId |-> NoId,
     totalDeliveries |-> NoCount, isActive |-> Absent, fcmToken |-> Absent]

\* The item createRider and registerRider build.
NewRider(phone) ==
    [phone |-> phone, status |-> "offline", currentOrderId |-> NoId,
     totalDeliveries |-> 0, isActive |-> "true", fcmToken |-> Absent]

\* Ghost history of each stored rider record: how many times its stored
\* status went from 'on-delivery' to 'available' or 'offline' (finished
\* on-delivery episodes), and whether updateRider has written to it.
NoRiderHist == [episodes |-> 0, edited |-> FALSE]

RiderHistAfter(key, isPut, isEdit, newRiders) ==
    LET old == IF isPut \/ key \notin DOMAIN rhist THEN NoRiderHist ELSE rhist[key]
        ended == /\ ~isPut
                 /\ key \in DOMAIN riders
                 /\ riders[key].status = "on-delivery"
                 /\ newRiders[key].status \in {"available", "offline"}
    IN  Put(rhist, key,
            [episodes |-> old.episodes + (IF ended THEN 1 ELSE 0),
             edited |-> old.edited \/ isEdit])

\* createRider request bodies: name and phone, either of which may be absent.
RiderBodies ==
    { [name |-> "Asha", phone |-> ph] : ph \in Phones \cup {NoPhone} }
      \cup { [name |-> Null, phone |-> ph] : ph \in Phones }

\* createRider up to its put call: validation, identifier, item.
CreateRiderBegin(i) ==
    /\ Free(i)
    /\ \E body \in RiderBodies :
          IF body.name = Null \/ body.phone = NoPhone
          THEN Respond(i, Resp("createRider", 400))
          ELSE Await(i, [IdleSlot EXCEPT !.op = "createRider", !.pc = "put",
                                         !.id = GenId(clock), !.phone = body.phone])
    /\ UNCHANGED <<clock, orders, riders, users, hist, rhist>>

\* createRider's put lands and the handler answers 201.
CreateRiderPut(i) ==
    /\ req[i].op = "createRider" /\ req[i].pc = "put"
    /\ riders' = Put(riders, req[i].id, NewRider(req[i].phone))
    /\ rhist' = RiderHistAfter(req[i].id, TRUE, FALSE, riders')
    /\ Respond(i, RespId("createRider", 201, req[i].id))
    /\ UNCHANGED <<clock, orders, users, hist>>

RiderKeyInputs == Times \cup {GhostId}

\* currentOrderId of an updateRiderStatus body: absent or an order identifier.
CurrentOrderInputs == {NoId, 0}

\* updateRiderStatus up to its update call: validation, existence check; the
\* handler keeps the status of the item it read.
UpdateRiderStatusGet(i) ==
    /\ Free(i)
    /\ \E id \in RiderKeyInputs, status \in RiderStatusInputs, coid \in CurrentOrderInputs :
          IF status \notin RIDER_STATUSES
          THEN Respond(i, RespId("updateRiderStatus", 400, id))
          ELSE IF id \notin DOMAIN riders
          THEN Respond(i, RespId("updateRiderStatus", 404, id))
          ELSE Await(i, [IdleSlot EXCEPT !.op = "updateRiderStatus", !.pc = "update",
                                         !.id = id, !.status = status, !.coid = coid,
                                         !.ex = riders[id].status])
    /\ UNCHANGED <<clock, orders, riders, users, hist, rhist>>

\* Mutant of RiderStatusChanges: the increment is conditioned on the
\* requested status alone, not on the status read before.
RiderStatusChangesOnRequested(status, coid, ex, stored) ==
    IF status = "on-delivery" /\ coid # NoId
    THEN [status |-> status, currentOrderId |-> coid]
    ELSE IF status \in {"available", "offline"}
    THEN [status |-> status, currentOrderId |-> NoId, totalDeliveries |-> stored + 1]
    ELSE [status |-> status]

\* Mutant of RiderStatusChanges: leaving 'on-delivery' counts the delivery
\* but keeps currentOrderId.
RiderStatusChangesKeeping(status, coid, ex, stored) ==
    IF status = "on-delivery" /\ coid # NoId
    THEN [status |-> status, currentOrderId |-> coid]
    ELSE IF status \in {"available", "offline"} /\ ex = "on-delivery"
    THEN [status |-> status, totalDeliveries |-> stored + 1]
    ELSE [status |-> status]

\* Mutant of RiderStatusChanges: a request to 'on-delivery' that carries no
\* currentOrderId clears the stored one.
RiderStatusChangesForgetting(status, coid, ex, stored) ==
    IF status = "on-delivery"
    THEN [status |-> status, currentOrderId |-> coid]
    ELSE IF status \in {"available", "offline"} /\ ex = "on-delivery"
    THEN [status |-> status, currentOrderId |-> NoId, totalDeliveries |-> stored + 1]
    ELSE [status |-> status]

\* The attribute changes updateRiderStatus sends: `ex` is the status its
\* existence check read, `stored` the totalDeliveries the store holds when
\* the update is applied (the increment is evaluated by the store).
RiderStatusChanges(status, coid, ex, stored) ==
    IF status = "on-delivery" /\ coid # NoId
    THEN [status |-> status, currentOrderId |-> coid]
    ELSE IF status \in {"available", "offline"} /\ ex = "on-delivery"
    THEN [status |-> status, currentOrderId |-> NoId, totalDeliveries |-> stored + 1]
    ELSE [status |-> status]

\* updateRiderStatus's update lands.  An increment of an item that carries
\* no totalDeliveries is rejected by the store: the catch block answers 500.
UpdateRiderStatusUpdate(i) ==
    /\ req[i].op = "updateRiderStatus" /\ req[i].pc = "update"
    /\ LET id == req[i].id
           stored == IF id \in DOMAIN riders THEN riders[id].totalDeliveries ELSE NoCount
           changes == RiderStatusChanges(req[i].status, req[i].coid, req[i].ex, stored)
       IN  IF "totalDeliveries" \in DOMAIN changes /\ stored = NoCount
           THEN /\ Respond(i, [RespId("updateRiderStatus", 500, id)
                                   EXCEPT !.err = "ValidationException"])
                /\ UNCHANGED <<riders, rhist>>
           ELSE /\ "totalDeliveries" \in DOMAIN changes => stored < MaxDeliveries
                /\ riders' = Update(riders, id, changes, BlankRider)
                /\ rhist' = RiderHistAfter(id, FALSE, FALSE, riders')
                /\ rhist'[id].episodes <= MaxDeliveries
                /\ Respond(i, RespId("updateRiderStatus", 200, id))
    /\ UNCHANGED <<clock, orders, users, hist>>

\* updateRider request bodies: any attributes; an `id` key is skipped.
RiderUpdateBodies ==
    { [status |-> "on-delivery"],
      [currentOrderId |-> 0],
      [status |-> "bogus"],
      [id |-> GhostId, totalDeliveries |-> 0] }

\* The attribute changes updateRider sends: every key of the body but `id`.
RiderUpdateChanges(body) == [k \in DOMAIN body \ {"id"} |-> body[k]]

\* updateRider up to its update call: existence check.
UpdateRiderGet(i) ==
    /\ Free(i)
    /\ \E id \in RiderKeyInputs, body \in RiderUpdateBodies :
          IF id \notin DOMAIN riders
          THEN Respond(i, RespId("updateRider", 404, id))
          ELSE Await(i, [IdleSlot EXCEPT !.op = "updateRider", !.pc = "update",
                                         !.id = id, !.upd = body])
    /\ UNCHANGED <<clock, orders, riders, users, hist, rhist>>

\* updateRider's update lands.
UpdateRiderUpdate(i) ==
    /\ req[i].op = "updateRider" /\ req[i].pc = "update"
    /\ riders' = Update(riders, req[i].id, RiderUpdateChanges(req[i].upd), BlankRider)
    /\ rhist' = RiderHistAfter(req[i].id, FALSE, TRUE, riders')
    /\ rhist'[req[i].id].episodes <= MaxDeliveries
    /\ Respond(i, RespId("updateRider", 200, req[i].id))
    /\ UNCHANGED <<clock, orders, users, hist>>

\* deleteRider up to its update call: the handler validates nothing and
\* reads nothing.
DeleteRiderBegin(i) ==
    /\ Free(i)
    /\ \E id \in RiderKeyInputs :
          Await(i, [IdleSlot EXCEPT !.op = "deleteRider", !.pc = "update", !.id = id])
    /\ UNCHANGED <<clock, orders, riders, users, hist, rhist>>

\* deleteRider's update lands: isActive is set to false on the item of the
\* key, which the store creates when there is none.
DeleteRiderUpdate(i) ==
    /\ req[i].op = "deleteRider" /\ req[i].pc = "update"
    /\ riders' = Update(riders, req[i].id, [isActive |-> "false"], BlankRider)
    /\ rhist' = RiderHistAfter(req[i].id, req[i].id \notin DOMAIN riders, FALSE, riders')
    /\ Respond(i, RespId("deleteRider", 200, req[i].id))
    /\ UNCHANGED <<clock, orders, users, hist>>

\* riderId and fcmToken of an updateFCMToken body; NoId and Null are absent.
TokenRiderInputs == RiderKeyInputs \cup {NoId}

TokenInputs == {Null, "tok1"}

\* updateFCMToken (riderAuth.js) up to its update call: validation.
UpdateFCMTokenBegin(i) ==
    /\ Free(i)
    /\ \E riderId \in TokenRiderInputs, fcmToken \in TokenInputs :
          IF riderId = NoId \/ fcmToken = Null
          THEN Respond(i, RespId("updateFCMToken", 400, riderId))
          ELSE Await(i, [IdleSlot EXCEPT !.op = "updateFCMToken", !.pc = "update",
                                         !.id = riderId, !.token = fcmToken])
    /\ UNCHANGED <<clock, orders, riders, users, hist, rhist>>

\* updateFCMToken's update lands: no existence check, no condition.
UpdateFCMTokenUpdate(i) ==
    /\ req[i].op = "updateFCMToken" /\ req[i].pc = "update"
    /\ riders' = Update(riders, req[i].id, [fcmToken |-> req[i].token], BlankRider)
    /\ rhist' = RiderHistAfter(req[i].id, req[i].id \notin DOMAIN riders, FALSE, riders')
    /\ Respond(i, RespId("updateFCMToken", 200, req[i].id))
    /\ UNCHANGED <<clock, orders, users, hist>>

\* ------------------------------------------------------ identity records
\* The identity item with no attribute but its key.
BlankUser ==
    [name |-> Absent, password |-> <<>>, role |-> Absent, riderId |-> NoId,
     isActive |-> Absent]

\* Passwords are strings of characters; the empty string is a missing one.
GoodPassword == <<"s", "e", "c", "r", "e", "t">>

ShortPassword == <<"a", "b", "c">>

RiderPassword == <<"r", "i", "d", "e", "r", "1">>

\* bcrypt.hash: the stored hash is not the password; it is kept as the
\* hash marker followed by the password it was computed from.
Hash(password) == <<"$2b$">> \o password

\* E-mail addresses are strings of characters; the empty string is none.
GoodEmail == <<"a", "@", "b", ".", "c">>

BadEmail == <<"a", "b">>

Digits == {"0", "1", "2", "3", "4", "5", "6", "7", "8", "9"}

\* /^\d{10}$/
IsTenDigits(p) == Len(p) = 10 /\ \A k \in 1..Len(p) : p[k] \in Digits

\* /\S+@\S+\.\S+/ found somewhere in e.
EmailOk(e) ==
    \E a, d \in 1..Len(e) :
        /\ e[a] = "@" /\ a > 1 /\ e[a - 1] # " "
        /\ e[d] = "." /\ d > a + 1 /\ d < Len(e) /\ e[d + 1] # " "
        /\ \A k \in (a + 1)..(d - 1) : e[k] # " "

\* ------------------------------ registerHandler (firebaseService.js)
\* The item registerHandler builds: the body's role, 'user' when it has none.
NewUser(name, password, role) ==
    [name |-> name, password |-> Hash(password),
     role |-> IF role = Null THEN "user" ELSE role,
     riderId |-> NoId, isActive |-> "true"]

RegisterBody(name, phone, email, password, role) ==
    [name |-> name, phone |-> phone, email |-> email, password |-> password, role |-> role]

RegisterBodies ==
    { RegisterBody("Asha", Phone1, <<>>, GoodPassword, Null),
      RegisterBody("Bala", Phone1, GoodEmail, GoodPassword, "rider"),
      RegisterBody(Null, Phone1, <<>>, GoodPassword, Null),
      RegisterBody("Asha", ShortPhone, <<>>, GoodPassword, Null),
      RegisterBody("Asha", Phone1, BadEmail, GoodPassword, Null),
      RegisterBody("Asha", Phone1, <<>>, ShortPassword, Null) }

\* registerHandler up to its put call: validation and existence check.
RegisterHandlerGet(i) ==
    /\ Free(i)
    /\ \E body \in RegisterBodies :
          IF \/ body.name = Null \/ body.phone = NoPhone \/ body.password = <<>>
             \/ ~IsTenDigits(body.phone)
             \/ (body.email # <<>> /\ ~EmailOk(body.email))
             \/ Len(body.password) < 6
          THEN Respond(i, RespPhone("registerHandler", 400, body.phone))
          ELSE IF body.phone \in DOMAIN users
          THEN Respond(i, RespPhone("registerHandler", 409, body.phone))
          ELSE Await(i, [IdleSlot EXCEPT !.op = "registerHandler", !.pc = "put",
                                         !.phone = body.phone, !.name = body.name,
                                         !.password = body.password,
                                         !.role = body.role])
    /\ UNCHANGED <<clock, orders, riders, users, hist, rhist>>

\* registerHandler's put lands: it is conditional on the phone not being
\* stored, and the catch block answers 409 when that condition fails.
RegisterHandlerPut(i) ==
    /\ req[i].op = "registerHandler" /\ req[i].pc = "put"
    /\ IF req[i].phone \in DOMAIN users
       THEN /\ Respond(i, [RespPhone("registerHandler", 409, req[i].phone)
                               EXCEPT !.err = "ConditionalCheckFailedException"])
            /\ UNCHANGED users
       ELSE /\ users' = Put(users, req[i].phone,
                             NewUser(req[i].name, req[i].password, req[i].role))
            /\ Respond(i, RespPhone("registerHandler", 201, req[i].phone))
    /\ UNCHANGED <<clock, orders, riders, hist, rhist>>

\* -------------------------------------------- registerRider (riderAuth.js)
RiderRegBody(name, phone, password, vehicleType, vehicleNumber) ==
    [name |-> name, phone |-> phone, password |-> password,
     vehicleType |-> vehicleType, vehicleNumber |-> vehicleNumber]

RiderRegBodies ==
    { RiderRegBody("Chitra", Phone1, RiderPassword, "bike", "TN01"),
      RiderRegBody("Chitra", NoPhone, RiderPassword, "bike", "TN01"),
      RiderRegBody("Chitra", Phone1, RiderPassword, "bike", Null) }

\* Mutant of RiderUser: the identity item links another rider id.
RiderUserDangling(name, password, riderId) ==
    [name |-> name, password |-> Hash(password), role |-> "rider",
     riderId |-> riderId + 1, isActive |-> "true"]

\* The identity item registerRider builds.
RiderUser(name, password, riderId) ==
    [name |-> name, password |-> Hash(password), role |-> "rider",
     riderId |-> riderId, isActive |-> "true"]

\* registerRider up to its transaction: validation and existence check.
RegisterRiderGet(i) ==
    /\ Free(i)
    /\ \E body \in RiderRegBodies :
          IF \/ body.name = Null \/ body.phone = NoPhone \/ body.password = <<>>
             \/ body.vehicleType = Null \/ body.vehicleNumber = Null
          THEN Respond(i, RespPhone("registerRider", 400, body.phone))
          ELSE IF body.phone \in DOMAIN users
          THEN Respond(i, RespPhone("registerRider", 409, body.phone))
          ELSE Await(i, [IdleSlot EXCEPT !.op = "registerRider", !.pc = "transact",
                                         !.phone = body.phone, !.name = body.name,
                                         !.password = body.password,
                                         !.t0 = clock])
    /\ UNCHANGED <<clock, orders, riders, users, hist, rhist>>

\* Mutant of TransactWrite: the put of the identity item carries no
\* condition.
TransactWriteUnconditional(phone, user, riderId, rider) ==
    [ok |-> TRUE, users |-> Put(users, phone, user),
     riders |-> Put(riders, riderId, rider)]

\* Mutant of TransactWrite: when the condition on the identity item fails,
\* the rider item is written all the same.
TransactWriteTorn(phone, user, riderId, rider) ==
    IF phone \in DOMAIN users
    THEN [ok |-> FALSE, users |-> users, riders |-> Put(riders, riderId, rider)]
    ELSE [ok |-> TRUE, users |-> Put(users, phone, user),
          riders |-> Put(riders, riderId, rider)]

\* DocumentClient.transactWrite of registerRider: a put of the identity item
\* conditional on its phone not being stored, and a put of the rider item;
\* both are applied or neither is.
TransactWrite(phone, user, riderId, rider) ==
    IF phone \in DOMAIN users
    THEN [ok |-> FALSE, users |-> users, riders |-> riders]
    ELSE [ok |-> TRUE, users |-> Put(users, phone, user),
          riders |-> Put(riders, riderId, rider)]

\* registerRider's transaction lands; the rider id was drawn from the clock
\* after the password hash, at some time since the existence check.  A
\* cancelled transaction reaches the catch block, which answers 500.
RegisterRiderTransact(i) ==
    /\ req[i].op = "registerRider" /\ req[i].pc = "transact"
    /\ \E t \in req[i].t0 .. clock :
          LET riderId == GenId(t)
              tx == TransactWrite(req[i].phone,
                                  RiderUser(req[i].name, req[i].password, riderId),
                                  riderId, NewRider(req[i].phone))
              r == [RespPhone("registerRider", IF tx.ok THEN 201 ELSE 500, req[i].phone)
                        EXCEPT !.id = riderId]
          IN  /\ users' = tx.users
              /\ riders' = tx.riders
              /\ rhist' = IF tx.ok THEN RiderHistAfter(riderId, TRUE, FALSE, riders')
                                   ELSE rhist
              /\ Respond(i, IF tx.ok THEN r
                            ELSE [r EXCEPT !.err = "TransactionCanceledException"])
    /\ UNCHANGED <<clock, orders, hist>>

\* ------------------------------------------- updateUserStatus (users.js)
\* isActive of an updateUserStatus body: a boolean or something else.
IsActiveInputs == {"true", "false", "yes"}

\* updateUserStatus up to its update call: validation.
UpdateUserStatusBegin(i) ==
    /\ Free(i)
    /\ \E phone \in Phones, isActive \in IsActiveInputs :
          IF isActive \notin {"true", "false"}
          THEN Respond(i, RespPhone("updateUserStatus", 400, phone))
          ELSE Await(i, [IdleSlot EXCEPT !.op = "updateUserStatus", !.pc = "update",
                                         !.phone = phone, !.active = isActive])
    /\ UNCHANGED <<clock, orders, riders, users, hist, rhist>>

\* updateUserStatus's update lands: no existence check, no condition.
UpdateUserStatusUpdate(i) ==
    /\ req[i].op = "updateUserStatus" /\ req[i].pc = "update"
    /\ users' = Update(users, req[i].phone, [isActive |-> req[i].active], BlankUser)
    /\ Respond(i, RespPhone("updateUserStatus", 200, req[i].phone))
    /\ UNCHANGED <<clock, orders, riders, hist, rhist>>

\* ------------------------------------------------------ login (login.js)
\* Login request bodies: phone and password, either of which may be absent.
LoginBodies ==
    { [phone |-> ph, password |-> pw] :
          ph \in {Phone1, ShortPhone, NoPhone},
          pw \in {GoodPassword, RiderPassword, <<>>} }

\* bcrypt.compare(password, hash): rejects when the stored item carries no
\* password, otherwise tells whether the hash was computed from `password`.
Compare(password, hash) ==
    IF hash = <<>> THEN "IllegalArguments"
    ELSE IF hash = Hash(password) THEN "match" ELSE "mismatch"

\* login.js generateToken: the claims signed into the token.
generateToken(phone, user) ==
    [phone |-> phone, name |-> user.name, role |-> user.role]

\* loginHandler up to its update call: validation, the read of the user,
\* the isActive check and the password check.
LoginHandlerGet(i) ==
    /\ Free(i)
    /\ \E body \in LoginBodies :
          IF body.phone = NoPhone \/ body.password = <<>>
          THEN Respond(i, RespPhone("loginHandler", 400, body.phone))
          ELSE IF ~IsTenDigits(body.phone)
          THEN Respond(i, RespPhone("loginHandler", 400, body.phone))
          ELSE IF body.phone \notin DOMAIN users
          THEN Respond(i, RespPhone("loginHandler", 401, body.phone))
          ELSE IF users[body.phone].isActive # "true"
          THEN Respond(i, RespPhone("loginHandler", 403, body.phone))
          ELSE IF Compare(body.password, users[body.phone].password) = "IllegalArguments"
          THEN Respond(i, [RespPhone("loginHandler", 500, body.phone)
                               EXCEPT !.err = "IllegalArguments"])
          ELSE IF Compare(body.password, users[body.phone].password) = "mismatch"
          THEN Respond(i, RespPhone("loginHandler", 401, body.phone))
          ELSE Await(i, [IdleSlot EXCEPT !.op = "loginHandler", !.pc = "update",
                                         !.phone = body.phone,
                                         !.name = users[body.phone].name,
                                         !.role = users[body.phone].role])
    /\ UNCHANGED <<clock, orders, riders, users, hist, rhist>>

\* loginHandler's update of lastLogin lands (an attribute the user records
\* here do not carry) and the token is signed from the item read before.
LoginHandlerUpdate(i) ==
    /\ req[i].op = "loginHandler" /\ req[i].pc = "update"
    /\ users' = Update(users, req[i].phone, EmptyTable, BlankUser)
    /\ Respond(i, RespIn(RespPhone("loginHandler", 200, req[i].phone),
                         [token |-> generateToken(req[i].phone,
                                                  [name |-> req[i].name,
                                                   role |-> req[i].role])]))
    /\ UNCHANGED <<clock, orders, riders, hist, rhist>>

\* --------------------------------------------- loginRider (riderAuth.js)
\* riderAuth.js generateToken: the role is forced to 'rider'.
generateRiderToken(phone, name, riderId) ==
    [phone |-> phone, name |-> name, role |-> "rider", riderId |-> riderId]

\* loginRider up to its read of the rider profile: validation, the read of
\* the user, the role check and the password check.  A user that carries no
\* riderId is answered without the profile read.
LoginRiderGet(i) ==
    /\ Free(i)
    /\ \E body \in LoginBodies :
          IF body.phone = NoPhone \/ body.password = <<>>
          THEN Respond(i, RespPhone("loginRider", 400, body.phone))
          ELSE IF body.phone \notin DOMAIN users
          THEN Respond(i, RespPhone("loginRider", 401, body.phone))
          ELSE IF users[body.phone].role # "rider"
          THEN Respond(i, RespPhone("loginRider", 401, body.phone))
          ELSE IF Compare(body.password, users[body.phone].password) = "IllegalArguments"
          THEN Respond(i, [RespPhone("loginRider", 500, body.phone)
                               EXCEPT !.err = "IllegalArguments"])
          ELSE IF Compare(body.password, users[body.phone].password) = "mismatch"
          THEN Respond(i, RespPhone("loginRider", 401, body.phone))
          ELSE IF users[body.phone].riderId = NoId
          THEN Respond(i, RespIn(RespPhone("loginRider", 200, body.phone),
                                 [token |-> generateRiderToken(body.phone,
                                                users[body.phone].name, NoId)]))
          ELSE Await(i, [IdleSlot EXCEPT !.op = "loginRider", !.pc = "profile",
                                         !.phone = body.phone,
                                         !.name = users[body.phone].name,
                                         !.rid = users[body.phone].riderId])
    /\ UNCHANGED <<clock, orders, riders, users, hist, rhist>>

\* loginRider's read of the rider profile lands; the handler answers with
\* the profile, or with a fallback when there is none, and the token.
LoginRiderProfile(i) ==
    /\ req[i].op = "loginRider" /\ req[i].pc = "profile"
    /\ Respond(i, RespIn([RespPhone("loginRider", 200, req[i].phone)
                              EXCEPT !.id = req[i].rid],
                         [token |-> generateRiderToken(req[i].phone, req[i].name,
                                                       req[i].rid)]))
    /\ UNCHANGED <<clock, orders, riders, users, hist, rhist>>

\* ------------------------------------------------------- specifications
\* The put of slot i under key `id` keeps the stored riders within n.
RiderRoom(id, n) == id \in DOMAIN riders \/ Cardinality(DOMAIN riders) < n

\* Requests to the rider directory and rider registration served one at a
\* time.
NextRiders ==
    \/ Tick
    \/ \E i \in Slots : Quiet /\ CreateRiderBegin(i)
    \/ \E i \in Slots : RiderRoom(req[i].id, MaxRiders) /\ CreateRiderPut(i)
    \/ \E i \in Slots : Quiet /\ RegisterRiderGet(i)
    \/ \E i \in Slots : RegisterRiderTransact(i) /\ Cardinality(DOMAIN riders') <= MaxRiders
    \/ \E i \in Slots : Quiet /\ UpdateRiderStatusGet(i)
    \/ \E i \in Slots : UpdateRiderStatusUpdate(i)
    \/ \E i \in Slots : Quiet /\ UpdateRiderGet(i)
    \/ \E i \in Slots : UpdateRiderUpdate(i)
    \/ \E i \in Slots : StoreFails(i)

SpecRiders == Init /\ [][NextRiders]_vars

\* updateRiderStatus requests overlapping at their store calls, with the
\* other writers of the rider directory.
NextRidersConc ==
    \/ Tick
    \/ \E i \in Slots : CreateRiderBegin(i)
    \/ \E i \in Slots : RiderRoom(req[i].id, MaxRiders) /\ CreateRiderPut(i)
    \/ \E i \in Slots : UpdateRiderStatusGet(i)
    \/ \E i \in Slots : UpdateRiderStatusUpdate(i)
    \/ \E i \in Slots : UpdateRiderGet(i)
    \/ \E i \in Slots : UpdateRiderUpdate(i)
    \/ \E i \in Slots : StoreFails(i)

SpecRidersConc == Init /\ [][NextRidersConc]_vars

\* Writers of identity records overlapping at their store calls.
NextReg ==
    \/ Tick
    \/ \E i \in Slots : RegisterHandlerGet(i)
    \/ \E i \in Slots : RegisterHandlerPut(i)
    \/ \E i \in Slots : RegisterRiderGet(i)
    \/ \E i \in Slots : RegisterRiderTransact(i)
    \/ \E i \in Slots : UpdateUserStatusBegin(i)
    \/ \E i \in Slots : UpdateUserStatusUpdate(i)
    \/ \E i \in Slots : StoreFails(i)

SpecReg == Init /\ [][NextReg]_vars

\* Registration, activation and login requests served one at a time.
NextLogin ==
    \/ Tick
    \/ \E i \in Slots : Quiet /\ RegisterHandlerGet(i)
    \/ \E i \in Slots : RegisterHandlerPut(i)
    \/ \E i \in Slots : Quiet /\ RegisterRiderGet(i)
    \/ \E i \in Slots : RegisterRiderTransact(i)
    \/ \E i \in Slots : Quiet /\ UpdateUserStatusBegin(i)
    \/ \E i \in Slots : UpdateUserStatusUpdate(i)
    \/ \E i \in Slots : Quiet /\ LoginHandlerGet(i)
    \/ \E i \in Slots : LoginHandlerUpdate(i)
    \/ \E i \in Slots : Quiet /\ LoginRiderGet(i)
    \/ \E i \in Slots : LoginRiderProfile(i)
    \/ \E i \in Slots : StoreFails(i)

SpecLogin == Init /\ [][NextLogin]_vars

\* createOrder and assignRider requests overlapping at their store calls.
NextBooking ==
    \/ Tick
    \/ \E i \in Slots : CreateOrderBegin(i)
    \/ \E i \in Slots : OrderRoom(i, MaxBooked) /\ CreateOrderPut(i)
    \/ \E i \in Slots : AssignRiderGet(i)
    \/ \E i \in Slots : AssignRiderUpdate(i)
    \/ \E i \in Slots : StoreFails(i)

SpecBooking == Init /\ [][NextBooking]_vars

\* Mutant of NextOrdersConc: the order routes also offer a hard delete.
NextOrdersConcDeleting ==
    \/ Tick
    \/ \E i \in Slots : CreateOrderBegin(i)
    \/ \E i \in Slots : OrderRoom(i, MaxOrders) /\ CreateOrderPut(i)
    \/ \E i \in Slots : UpdateOrderStatusGet(i)
    \/ \E i \in Slots : UpdateOrderStatusUpdate(i)
    \/ \E i \in Slots : AssignRiderGet(i)
    \/ \E i \in Slots : AssignRiderUpdate(i)
    \/ \E i \in Slots : StoreFails(i)
    \/ \E id \in DOMAIN orders :
          /\ orders' = [o \in DOMAIN orders \ {id} |-> orders[o]]
          /\ UNCHANGED <<clock, riders, users, req, last, hist, rhist>>

\* The order routes with requests overlapping at their store calls: the
\* order handlers the module exports, none of which deletes.
NextOrdersConc ==
    \/ Tick
    \/ \E i \in Slots : CreateOrderBegin(i)
    \/ \E i \in Slots : OrderRoom(i, MaxOrders) /\ CreateOrderPut(i)
    \/ \E i \in Slots : UpdateOrderStatusGet(i)
    \/ \E i \in Slots : UpdateOrderStatusUpdate(i)
    \/ \E i \in Slots : AssignRiderGet(i)
    \/ \E i \in Slots : AssignRiderUpdate(i)
    \/ \E i \in Slots : StoreFails(i)

SpecOrdersConc == Init /\ [][NextOrdersConc]_vars

\* Every writer of the rider directory, served one at a time.
NextDirectory ==
    \/ Tick
    \/ \E i \in Slots : Quiet /\ CreateRiderBegin(i)
    \/ \E i \in Slots : RiderRoom(req[i].id, MaxRiders) /\ CreateRiderPut(i)
    \/ \E i \in Slots : Quiet /\ RegisterRiderGet(i)
    \/ \E i \in Slots : RegisterRiderTransact(i) /\ Cardinality(DOMAIN riders') <= MaxRiders
    \/ \E i \in Slots : Quiet /\ UpdateRiderStatusGet(i)
    \/ \E i \in Slots : UpdateRiderStatusUpdate(i)
    \/ \E i \in Slots : Quiet /\ UpdateRiderGet(i)
    \/ \E i \in Slots : UpdateRiderUpdate(i)
    \/ \E i \in Slots : Quiet /\ DeleteRiderBegin(i)
    \/ \E i \in Slots : RiderRoom(req[i].id, MaxRiders) /\ DeleteRiderUpdate(i)
    \/ \E i \in Slots : Quiet /\ UpdateFCMTokenBegin(i)
    \/ \E i \in Slots : RiderRoom(req[i].id, MaxRiders) /\ UpdateFCMTokenUpdate(i)
    \/ \E i \in Slots : StoreFails(i)

SpecDirectory == Init /\ [][NextDirectory]_vars

\* The order ledger together with the rider directory and rider
\* registration, requests served one at a time.
Next ==
    \/ Tick
    \/ \E i \in Slots : Quiet /\ CreateOrderBegin(i)
    \/ \E i \in Slots : OrderRoom(i, MaxOrders) /\ CreateOrderPut(i)
    \/ \E i \in Slots : Quiet /\ UpdateOrderStatusGet(i)
    \/ \E i \in Slots : UpdateOrderStatusUpdate(i)
    \/ \E i \in Slots : Quiet /\ AssignRiderGet(i)
    \/ \E i \in Slots : AssignRiderUpdate(i)
    \/ \E i \in Slots : Quiet /\ CreateRiderBegin(i)
    \/ \E i \in Slots : RiderRoom(req[i].id, MaxRiders) /\ CreateRiderPut(i)
    \/ \E i \in Slots : Quiet /\ UpdateRiderStatusGet(i)
    \/ \E i \in Slots : UpdateRiderStatusUpdate(i)
    \/ \E i \in Slots : Quiet /\ RegisterRiderGet(i)
    \/ \E i \in Slots : RegisterRiderTransact(i) /\ Cardinality(DOMAIN riders') <= MaxRiders
    \/ \E i \in Slots : StoreFails(i)
    \/ \E i \in Slots : Quiet /\ ReadFails(i)

Spec == Init /\ [][Next]_vars

\* ------------------------------------------------------- order claims
\* Slot i held a request of operation op that the latest step answered
\* with status code `code`.
Answered(i, op, code) ==
    /\ req[i].op = op
    /\ Idle(i)'
    /\ last'.op = op /\ last'.code = code

\* C1: every createOrder request that passes validation writes (and returns)
\* a record with status 'placed', riderId, riderName and deliveredAt null, and
\* totalAmount the numeric parse of the request's totalAmount: 5 for the
\* number 5 and for the string "5a", -5 for the string "-5".
C1_CreateOrderRecord ==
    [][\A i \in Slots :
          Answered(i, "createOrder", 201) =>
              /\ req[i].id \in DOMAIN orders'
              /\ LET o == orders'[req[i].id]
                     x == req[i].total
                 IN  /\ o.status = "placed"
                     /\ o.riderId = NoId
                     /\ o.riderName = Null
                     /\ o.deliveredAt = NoTime
                     /\ o.totalAmount = ParseFloat(x)
                     /\ x = Num(5) => o.totalAmount = 5
                     /\ x = Str(<<"5", "a">>) => o.totalAmount = 5
                     /\ x = Str(<<"-", "5">>) => o.totalAmount = 0 - 5]_vars

\* C1 witness: a createOrder was just answered 201 and its record carries the
\* amount parsed from the string "-5".
C1_Witness ==
    /\ last.op = "createOrder" /\ last.code = 201
    /\ last.id \in DOMAIN orders
    /\ orders[last.id].totalAmount = 0 - 5
    /\ orders[last.id].status = "placed"

\* C2: updateOrderStatus to 'delivered' sets deliveredAt to a time at or
\* after the order's createdAt; to any other valid status it leaves
\* deliveredAt as it was.
C2_DeliveredAtStamp ==
    [][\A i \in Slots :
          Answered(i, "updateOrderStatus", 200) =>
              LET id == req[i].id
              IN  IF req[i].status = "delivered"
                  THEN /\ orders'[id].deliveredAt # NoTime
                       /\ orders'[id].deliveredAt >= orders'[id].createdAt
                  ELSE orders'[id].deliveredAt = orders[id].deliveredAt]_vars

\* C2 witness: an order delivered after the clock advanced was just moved
\* back to 'placed' and still carries its deliveredAt.
C2_Witness ==
    /\ last.op = "updateOrderStatus" /\ last.code = 200
    /\ last.id \in DOMAIN orders
    /\ orders[last.id].status = "placed"
    /\ orders[last.id].deliveredAt > orders[last.id].createdAt

\* C3: an order's deliveredAt is non-null exactly when its status has been
\* 'delivered' at some point up to now.
C3_DeliveredAtIffEverDelivered ==
    \A id \in DOMAIN orders :
        (orders[id].deliveredAt # NoTime) <=> hist[id].delivered

\* C3 witness: an order that was delivered and is now cancelled.
C3_Witness ==
    \E id \in DOMAIN orders :
        /\ hist[id].delivered
        /\ orders[id].status = "cancelled"
        /\ orders[id].deliveredAt # NoTime

\* C4 as claimed: an order's riderId is non-null exactly when its status is
\* 'inProgress' or 'delivered'.
C4_RiderIdIffActiveStatus ==
    \A id \in DOMAIN orders :
        (orders[id].riderId # NoId) <=> (orders[id].status \in {"inProgress", "delivered"})

\* C4 amended: an order's riderId is non-null exactly when assignRider has
\* written to the order; its status may be any of the four either way.
C4_RiderIdIffAssigned ==
    \A id \in DOMAIN orders :
        /\ (orders[id].riderId # NoId) <=> hist[id].assigned
        /\ orders[id].status \in ORDER_STATUSES

\* C4 witness: an assigned order whose status was set back to 'placed'.
C4_Witness ==
    \E id \in DOMAIN orders :
        /\ hist[id].assigned
        /\ orders[id].riderId # NoId
        /\ orders[id].status = "placed"

\* ------------------------------------------------------- rider claims
\* C5: with requests served one at a time, an updateRiderStatus to
\* 'available' or 'offline' on a rider stored as 'on-delivery' clears
\* currentOrderId and adds exactly 1 to totalDeliveries; on a rider stored
\* with any other status (a repeated call among them) it leaves
\* totalDeliveries as it was.
C5_LeavingOnDeliveryCountsOnce ==
    [][\A i \in Slots :
          (Answered(i, "updateRiderStatus", 200)
              /\ req[i].status \in {"available", "offline"}) =>
              LET id == req[i].id
              IN  IF riders[id].status = "on-delivery"
                  THEN /\ riders'[id].currentOrderId = NoId
                       /\ riders'[id].totalDeliveries = riders[id].totalDeliveries + 1
                  ELSE riders'[id].totalDeliveries = riders[id].totalDeliveries]_vars

\* C5 witness: a rider that finished one on-delivery episode was just moved
\* from 'available' to 'offline' and still counts one delivery.
C5_Witness ==
    /\ last.op = "updateRiderStatus" /\ last.code = 200
    /\ last.id \in DOMAIN riders
    /\ riders[last.id].status = "offline"
    /\ riders[last.id].currentOrderId = NoId
    /\ riders[last.id].totalDeliveries = 1
    /\ rhist[last.id] = [episodes |-> 1, edited |-> FALSE]

\* C6: whatever the interleaving of updateRiderStatus requests, a rider
\* record that only createRider and updateRiderStatus have written counts
\* in totalDeliveries exactly its finished on-delivery episodes.
C6_OncePerEpisode ==
    \A id \in DOMAIN riders :
        ~rhist[id].edited => riders[id].totalDeliveries = rhist[id].episodes

\* C7 as claimed: a rider's currentOrderId is non-null exactly when its
\* status is 'on-delivery'.
C7_CurrentOrderIffOnDelivery ==
    \A id \in DOMAIN riders :
        (riders[id].currentOrderId # NoId) <=> (riders[id].status = "on-delivery")

\* C7 amended: with requests served one at a time, a rider record that
\* updateRider has not written and whose currentOrderId is non-null has
\* status 'on-delivery'; a rider may be 'on-delivery' with no currentOrderId.
C7_CurrentOrderOnlyOnDelivery ==
    \A id \in DOMAIN riders :
        (riders[id].currentOrderId # NoId /\ ~rhist[id].edited) =>
            riders[id].status = "on-delivery"

\* C7 witness: updateRiderStatus just put a rider 'on-delivery' with an order.
C7_Witness ==
    /\ last.op = "updateRiderStatus" /\ last.code = 200
    /\ last.id \in DOMAIN riders
    /\ ~rhist[last.id].edited
    /\ riders[last.id].status = "on-delivery"
    /\ riders[last.id].currentOrderId # NoId

\* ------------------------------------------------ registration claims
\* C8: of two registerRider requests with the same phone, the one answered
\* after the other has registered the phone (a request that passes
\* validation, the store being reachable) is answered 409 and writes no
\* rider record.
C8_SecondRegistrationConflicts ==
    [][(/\ last'.op = "registerRider"
        /\ last'.code # 400
        /\ last'.err # "StoreUnavailable"
        /\ last'.phone \in DOMAIN users
        /\ users[last'.phone].riderId # NoId) =>
            (last'.code = 409 /\ riders' = riders)]_vars

\* C9: registerRider is all-or-nothing: a request answered 201 has written
\* both the identity record of its phone, linked to its rider id, and the
\* rider record of that id; a request answered otherwise has written
\* neither.
C9_RegisterRiderAllOrNothing ==
    [][last'.op = "registerRider" =>
          IF last'.code = 201
          THEN /\ last'.phone \in DOMAIN users' /\ last'.phone \notin DOMAIN users
               /\ users'[last'.phone].riderId = last'.id
               /\ last'.id \in DOMAIN riders'
               /\ riders'[last'.id] = NewRider(last'.phone)
          ELSE users' = users /\ riders' = riders]_vars

\* C9 witness: a registerRider was just answered 201 and both its records
\* are stored.
C9_Witness ==
    /\ last.op = "registerRider" /\ last.code = 201
    /\ last.phone \in DOMAIN users
    /\ users[last.phone].riderId = last.id
    /\ last.id \in DOMAIN riders
    /\ riders[last.id].phone = last.phone

\* C10 as claimed: every identity record with role 'rider' has a non-null
\* riderId that is the key of a stored rider record.
C10_RiderRoleLinked ==
    \A p \in DOMAIN users :
        users[p].role = "rider" =>
            (users[p].riderId # NoId /\ users[p].riderId \in DOMAIN riders)

\* C10 amended: an identity record with role 'rider' may carry no riderId;
\* every identity record that carries one has role 'rider' and its riderId
\* is the key of a stored rider record.
C10_RiderLinkResolves ==
    \A p \in DOMAIN users :
        users[p].riderId # NoId =>
            (users[p].role = "rider" /\ users[p].riderId \in DOMAIN riders)

\* C10 witness: an identity record of role 'rider' linked to a stored rider
\* record that was deactivated by updateUserStatus.
C10_Witness ==
    \E p \in DOMAIN users :
        /\ users[p].role = "rider"
        /\ users[p].riderId \in DOMAIN riders
        /\ users[p].isActive = "false"

\* C11: whatever the interleaving of registerHandler and registerRider
\* requests on one phone, a registration is answered 201 only by the step
\* that stores the phone's first identity record, and no step replaces or
\* alters the name, password hash, role or riderId of a stored identity
\* record (identity records are never removed, so at most one registration
\* of a phone succeeds).
C11_PhoneRegisteredOnce ==
    [][/\ \A p \in DOMAIN users :
             /\ p \in DOMAIN users'
             /\ users'[p].name = users[p].name
             /\ users'[p].password = users[p].password
             /\ users'[p].role = users[p].role
             /\ users'[p].riderId = users[p].riderId
       /\ (last'.op \in {"registerHandler", "registerRider"} /\ last'.code = 201) =>
             (last'.phone \notin DOMAIN users /\ last'.phone \in DOMAIN users')]_vars

\* C11 witness: a registerHandler that passed its existence check lost the
\* race to a registerRider: its conditional put was refused and the rider's
\* identity record is intact.
C11_Witness ==
    /\ last.op = "registerHandler" /\ last.code = 409
    /\ last.err = "ConditionalCheckFailedException"
    /\ last.phone \in DOMAIN users
    /\ users[last.phone].role = "rider"
    /\ users[last.phone].name = "Chitra"
    /\ users[last.phone].password = Hash(RiderPassword)
    /\ users[last.phone].riderId \in DOMAIN riders

\* ------------------------------------------------ order claims, continued
\* C12: an assignRider request (carrying a riderId, the store reachable) on
\* an identifier that is not stored is answered 404, and a request answered
\* 404 has written nothing: the orders are as before and hold no record
\* under that identifier.
C12_AssignRiderNotFound ==
    [][/\ (last'.op = "assignRider" /\ last'.err = "none"
              /\ last'.id \notin DOMAIN orders) =>
             /\ last'.code \in {400, 404}
             /\ (last'.code = 404) <=> (last'.in.riderId # NoId)
       /\ (last'.op = "assignRider" /\ last'.code = 404) =>
             /\ last'.id \notin DOMAIN orders
             /\ orders' = orders
             /\ last'.id \notin DOMAIN orders']_vars

\* C12 witness: with an order stored, an assignRider on another identifier
\* was just answered 404.
C12_Witness ==
    /\ last.op = "assignRider" /\ last.code = 404
    /\ last.in.riderId # NoId
    /\ DOMAIN orders # {}
    /\ last.id \notin DOMAIN orders

\* C13: an assignRider answered 200 has stored the request's riderId, the
\* request's riderName or 'Assigned Rider' when it has none, and status
\* 'inProgress', whatever the status was; a request without riderId is
\* answered 400, a request is answered 400 only when it has no riderId, and
\* a request answered 400 has written nothing.
C13_AssignRiderEffect ==
    [][/\ \A i \in Slots :
             /\ req[i].op = "assignRider" => req[i].rid # NoId
             /\ Answered(i, "assignRider", 200) =>
                   LET o == orders'[req[i].id]
                   IN  /\ o.riderId = req[i].rid
                       /\ o.riderName = (IF req[i].rname = Null THEN "Assigned Rider"
                                                                ELSE req[i].rname)
                       /\ o.status = "inProgress"
       /\ (last'.op = "assignRider" /\ last'.code \in {400, 404}) =>
             /\ (last'.code = 400) <=> (last'.in.riderId = NoId)
             /\ orders' = orders]_vars

\* C13 witness: an order that had been delivered was just assigned a rider
\* by a request without riderName.
C13_Witness ==
    /\ last.op = "assignRider" /\ last.code = 200
    /\ last.id \in DOMAIN orders
    /\ hist[last.id].delivered
    /\ orders[last.id].status = "inProgress"
    /\ orders[last.id].riderId = 0
    /\ orders[last.id].riderName = "Assigned Rider"

\* C15: createOrder accepts a request only when its items are non-empty,
\* its customer has name and phone and its totalAmount is positive; a
\* request answered 400 has written nothing, and a request answered 201 was
\* such a request.
C15_CreateOrderValidation ==
    [][/\ \A i \in Slots :
             (req'[i].op = "createOrder" /\ req'[i].pc = "put") =>
                 (req'[i].items = "one" /\ ParseFloat(req'[i].total) > 0)
       /\ (last'.op = "createOrder" /\ last'.code = 400) => orders' = orders]_vars

\* C16: updateOrderStatus with a valid status on a stored order is not
\* refused, whatever the order's status (it is answered 400 or 404 only for
\* an invalid status or an identifier that is not stored), and a request
\* answered 200 has set the order's status to the requested one.
C16_StatusRegressionPermitted ==
    [][/\ \A i \in Slots :
             Answered(i, "updateOrderStatus", 200) =>
                 orders'[req[i].id].status = req[i].status
       /\ (last'.op = "updateOrderStatus" /\ last'.code \in {400, 404}) =>
             (last'.in.status \notin ORDER_STATUSES \/ last'.id \notin DOMAIN orders)]_vars

\* C16 witness: an order that had been delivered was just set back to
\* 'placed' with a success answer.
C16_Witness ==
    /\ last.op = "updateOrderStatus" /\ last.code = 200
    /\ last.id \in DOMAIN orders
    /\ hist[last.id].delivered
    /\ orders[last.id].status = "placed"

\* C19: every stored order has a status among 'placed', 'inProgress',
\* 'delivered', 'cancelled'.
C19_OrderStatusValid ==
    \A id \in DOMAIN orders : orders[id].status \in ORDER_STATUSES

\* C19 witness: an updateOrderStatus carrying an invalid status on a stored
\* order was just answered 400.
C19_Witness ==
    /\ last.op = "updateOrderStatus" /\ last.code = 400
    /\ last.in.status \notin ORDER_STATUSES
    /\ last.id \in DOMAIN orders
    /\ orders[last.id].status \in ORDER_STATUSES

\* ------------------------------------------------- cross-table claims
\* C14: an updateOrderStatus, assignRider, updateRiderStatus or
\* registerRider request answered 400, 404 or 409 is answered before it has
\* issued a mutating store call (it is not one that was suspended at a
\* write), and the step that answers it leaves orders, riders and identity
\* records as they were.
C14_FailuresWriteNothing ==
    [][(/\ last'.op \in {"updateOrderStatus", "assignRider", "updateRiderStatus",
                         "registerRider"}
        /\ last'.code \in {400, 404, 409}) =>
            /\ orders' = orders /\ riders' = riders /\ users' = users
            /\ \A i \in Slots : Idle(i)' => Idle(i)]_vars

\* C14 witness: with an order, a rider and an identity record stored, a
\* registerRider on the registered phone was just answered 409.
C14_Witness ==
    /\ last.op = "registerRider" /\ last.code = 409
    /\ last.phone \in DOMAIN users
    /\ DOMAIN orders # {} /\ DOMAIN riders # {}

\* C17: no step of assignRider changes the rider directory, and assignRider
\* refuses a request only for a missing riderId or an order that is not
\* stored, never for the rider's absence or status.
C17_AssignRiderLeavesRiders ==
    [][last'.op = "assignRider" =>
          /\ riders' = riders
          /\ (last'.err = "none" /\ last'.code # 200) =>
                /\ last'.code \in {400, 404}
                /\ (last'.in.riderId = NoId \/ last'.id \notin DOMAIN orders)]_vars

\* C17 witness: an order was just assigned to a rider that is stored as
\* 'on-delivery' for an order; the rider record is as it was.
C17_Witness ==
    /\ last.op = "assignRider" /\ last.code = 200
    /\ last.id \in DOMAIN orders
    /\ orders[last.id].riderId \in DOMAIN riders
    /\ riders[orders[last.id].riderId].status = "on-delivery"
    /\ riders[orders[last.id].riderId].currentOrderId # NoId

\* C18: every stored rider record has a status among 'available',
\* 'on-delivery', 'offline'.
C18_RiderStatusValid ==
    \A id \in DOMAIN riders : riders[id].status \in RIDER_STATUSES

\* C20: no step lowers the totalDeliveries stored for a rider identifier.
C20_TotalDeliveriesMonotonic ==
    [][\A id \in DOMAIN riders :
          /\ id \in DOMAIN riders'
          /\ riders'[id].totalDeliveries >= riders[id].totalDeliveries]_vars

\* ------------------------------------------------ rider claims, continued
\* C21: only createRider and registerRider add a key to the rider
\* directory: a step that changes the set of stored rider identifiers is
\* the answer of one of those two (updateFCMToken and deleteRider on an
\* identifier that is not stored create no record).
C21_OnlyCreatorsAddRiders ==
    [][DOMAIN riders' # DOMAIN riders =>
          last'.op \in {"createRider", "registerRider"}]_vars

\* ------------------------------------------------ order claims, continued
\* C22: double-booking is not prevented.  An assignRider that passed its
\* checks is answered 200 and binds its order to the rider whatever other
\* orders carry that rider, leaving those orders as they are; a request is
\* refused only for a missing riderId or an order that is not stored.
C22_AssignRiderIgnoresBookings ==
    [][/\ \A i \in Slots :
             (req[i].op = "assignRider" /\ Idle(i)' /\ last'.err = "none") =>
                 /\ last'.code = 200
                 /\ orders'[req[i].id].riderId = req[i].rid
                 /\ orders'[req[i].id].status = "inProgress"
                 /\ \A o \in DOMAIN orders \ {req[i].id} : orders'[o] = orders[o]
       /\ (last'.op = "assignRider" /\ last'.code \in {400, 404, 409}) =>
             (last'.in.riderId = NoId \/ last'.id \notin DOMAIN orders)]_vars

\* C22 witness: two distinct 'inProgress' orders carry the same riderId, the
\* second of them just assigned.
C22_Witness ==
    /\ last.op = "assignRider" /\ last.code = 200
    /\ \E a, b \in DOMAIN orders :
          /\ a # b /\ last.id = b
          /\ orders[a].status = "inProgress" /\ orders[b].status = "inProgress"
          /\ orders[a].riderId # NoId
          /\ orders[a].riderId = orders[b].riderId

\* C23: a createOrder, createRider or registerRider answered 201 has added
\* its record under an identifier that was not stored, and has left every
\* stored order and rider record as it was.
C23_CreationsAreFresh ==
    [][(last'.code = 201 /\ last'.op \in {"createOrder", "createRider", "registerRider"}) =>
          /\ last'.op = "createOrder" => last'.id \notin DOMAIN orders
          /\ last'.op # "createOrder" => last'.id \notin DOMAIN riders
          /\ \A o \in DOMAIN orders : orders'[o] = orders[o]
          /\ \A r \in DOMAIN riders : riders'[r] = riders[r]]_vars

\* C24: when a store call of a handler fails, the handler answers 500 and
\* the step leaves orders, riders and identity records as they were; the
\* answer ends the request (its slot is idle afterwards, so no second
\* answer and no success can follow), and every answer ends at most one
\* request.
C24_StoreFailureAnswers500 ==
    [][/\ last'.err = "StoreUnavailable" =>
             /\ last'.code = 500
             /\ orders' = orders /\ riders' = riders /\ users' = users
       /\ \A i \in Slots :
             (~Idle(i) /\ req'[i] # req[i]) =>
                 /\ Idle(i)'
                 /\ last'.op = req[i].op
                 /\ \A j \in Slots \ {i} : req'[j] = req[j]]_vars

\* C24 witness: the update of an updateRiderStatus on a stored rider just
\* failed and was answered 500.
C24_Witness ==
    /\ last.op = "updateRiderStatus" /\ last.code = 500
    /\ last.err = "StoreUnavailable"
    /\ last.id \in DOMAIN riders
    /\ \A i \in Slots : Idle(i)

\* C25: a successful updateRiderStatus writes the requested status to the
\* addressed rider and nothing to any other rider; it leaves currentOrderId
\* and totalDeliveries as stored unless (a) the request is 'on-delivery' with
\* a currentOrderId or (b) the request is 'available' or 'offline' and the
\* stored status is 'on-delivery'.  A request to 'on-delivery' without a
\* currentOrderId keeps the stored currentOrderId, and case (a) stores the
\* supplied currentOrderId and keeps totalDeliveries.
C25_RiderStatusFrame ==
    [][\A i \in Slots :
          Answered(i, "updateRiderStatus", 200) =>
              LET id == req[i].id
                  old == riders[id]
                  new == riders'[id]
                  caseA == req[i].status = "on-delivery" /\ req[i].coid # NoId
                  caseB == /\ req[i].status \in {"available", "offline"}
                           /\ old.status = "on-delivery"
              IN  /\ new.status = req[i].status
                  /\ \A f \in DOMAIN old \ {"status", "currentOrderId", "totalDeliveries"} :
                        new[f] = old[f]
                  /\ \A r \in DOMAIN riders \ {id} : riders'[r] = riders[r]
                  /\ DOMAIN riders' = DOMAIN riders
                  /\ (~caseA /\ ~caseB) =>
                        /\ new.currentOrderId = old.currentOrderId
                        /\ new.totalDeliveries = old.totalDeliveries
                  /\ caseA =>
                        /\ new.currentOrderId = req[i].coid
                        /\ new.totalDeliveries = old.totalDeliveries
                  /\ (req[i].status = "on-delivery" /\ req[i].coid = NoId) =>
                        new.currentOrderId = old.currentOrderId]_vars

\* C25 witness: a rider that finished one on-delivery episode was put
\* 'on-delivery' again with an order and still counts one delivery.
C25_Witness ==
    /\ last.op = "updateRiderStatus" /\ last.code = 200
    /\ last.id \in DOMAIN riders
    /\ ~rhist[last.id].edited
    /\ rhist[last.id].episodes = 1
    /\ riders[last.id].status = "on-delivery"
    /\ riders[last.id].currentOrderId = 0
    /\ riders[last.id].totalDeliveries = 1

\* C26: no step removes an order identifier from the store, and, whatever
\* the interleaving, the update of an updateOrderStatus or assignRider whose
\* existence check succeeded lands on a stored order and adds no record.
C26_OrdersNeverDeleted ==
    [][/\ DOMAIN orders \subseteq DOMAIN orders'
       /\ \A i \in Slots :
             (/\ req[i].op \in {"updateOrderStatus", "assignRider"}
              /\ Idle(i)' /\ last'.code = 200) =>
                 /\ req[i].id \in DOMAIN orders
                 /\ DOMAIN orders' = DOMAIN orders]_vars

\* C26 witness: an assignRider update landed on a stored order while another
\* request on that order was between its existence check and its update.
C26_Witness ==
    /\ last.op = "assignRider" /\ last.code = 200
    /\ last.id \in DOMAIN orders
    /\ \E j \in Slots :
          /\ req[j].op = "updateOrderStatus" /\ req[j].pc = "update"
          /\ req[j].id = last.id

\* C27: in every reachable state a rider record's non-null currentOrderId is
\* the identifier of a stored order whose riderId is that rider's identifier.
C27_CurrentOrderOwned ==
    \A r \in DOMAIN riders :
        riders[r].currentOrderId # NoId =>
            /\ riders[r].currentOrderId \in DOMAIN orders
            /\ orders[riders[r].currentOrderId].riderId = r

\* C28: whatever the interleaving of the store calls of updateOrderStatus
\* and assignRider requests, each update that lands changes the stored order
\* exactly as the whole request would, run alone on the record stored at
\* that moment (its validation and existence check pass there, and status,
\* riderId, riderName and the presence of deliveredAt come out the same), and
\* touches no other order: the final record is the one produced by running
\* the requests one at a time in the order their updates land.
C28_UpdatesLinearize ==
    [][\A i \in Slots :
          (/\ req[i].op \in {"updateOrderStatus", "assignRider"}
           /\ req[i].pc = "update"
           /\ Idle(i)' /\ last'.code = 200) =>
              /\ req[i].id \in DOMAIN orders
              /\ DOMAIN orders' = DOMAIN orders
              /\ \A o \in DOMAIN orders \ {req[i].id} : orders'[o] = orders[o]
              /\ LET old == orders[req[i].id]
                     new == orders'[req[i].id]
                 IN  IF req[i].op = "updateOrderStatus"
                     THEN /\ req[i].status \in ORDER_STATUSES
                          /\ new.status = req[i].status
                          /\ new.riderId = old.riderId
                          /\ new.riderName = old.riderName
                          /\ (new.deliveredAt # NoTime) <=>
                                (old.deliveredAt # NoTime \/ req[i].status = "delivered")
                     ELSE /\ req[i].rid # NoId
                          /\ new.status = "inProgress"
                          /\ new.riderId = req[i].rid
                          /\ new.riderName =
                                (IF req[i].rname = Null THEN "Assigned Rider"
                                                        ELSE req[i].rname)
                          /\ (new.deliveredAt # NoTime) <=> (old.deliveredAt # NoTime)]_vars

\* C28 witness: an updateOrderStatus to 'delivered' landed on an assigned
\* order while an assignRider on the same order was between its existence
\* check and its update.
C28_Witness ==
    /\ last.op = "updateOrderStatus" /\ last.code = 200
    /\ last.id \in DOMAIN orders
    /\ orders[last.id].status = "delivered"
    /\ orders[last.id].deliveredAt # NoTime
    /\ orders[last.id].riderId # NoId
    /\ \E j \in Slots :
          /\ req[j].op = "assignRider" /\ req[j].pc = "update"
          /\ req[j].id = last.id

C30_DeactivatedNeverLogsIn ==
    (last.op \in {"loginHandler", "loginRider"} /\ last.code = 200) =>
        /\ last.phone \in DOMAIN users
        /\ users[last.phone].isActive # "false"

====
